---- MODULE Spec2Model ----
(***************************************************************************)
(* Model of the port inventory of ports-info (src/src/main.rs):            *)
(* PortMonitorWindow's acquisition chain (pkexec netstat -> ss -> netstat), *)
(* its two output parsers and the refresh handler.                         *)
(*                                                                         *)
(* A Rust string is modelled as a sequence of one-character strings, a     *)
(* command's stdout as the sequence of its lines (what str::lines yields), *)
(* an Option<T> as the empty sequence (None) or a one-element sequence     *)
(* (Some).                                                                 *)
(***************************************************************************)
EXTENDS Integers, Sequences, FiniteSets, TLC

VARIABLES
    all_ports,       \* PortMonitorWindow.all_ports: the inventory
    list_box,        \* PortMonitorWindow.list_box: the rows on display
    is_root,         \* PortMonitorWindow.is_root
    warning_banner,  \* PortMonitorWindow.warning_banner is revealed
    error_dialogs,   \* number of error dialogs presented and not yet closed
    pc,              \* "start": the idle callback of new() is pending;
                     \* "running": the main loop serves clicks;
                     \* "panicked": a handler panicked, the process is gone
    entry,           \* which handler ran last: "none", "load", "refresh"
    pre,             \* is_root and producer when the last handler started
    attempts,        \* the commands the last handler ran, in order, with
                     \* whether each succeeded
    producer,        \* the command whose output all_ports was parsed from
    output           \* the stdout last handed to a parser, with the parser

vars == <<all_ports, list_box, is_root, warning_banner, error_dialogs, pc,
          entry, pre, attempts, producer, output>>

----------------------------------------------------------------------------
(* String literals of the source *)

S_empty == <<>>
S_tcp == <<"t", "c", "p">>
S_dash == <<"-">>
S_zero == <<"0">>
S_unknown == <<"u", "n", "k", "n", "o", "w", "n">>
S_stateless == <<"s", "t", "a", "t", "e", "l", "e", "s", "s">>
S_Unknown == <<"U", "n", "k", "n", "o", "w", "n">>
S_UnknownNoPrivileges ==
    S_Unknown \o <<" ", "(", "n", "o", " ", "p", "r", "i", "v", "i", "l",
                   "e", "g", "e", "s", ")">>
S_Any == <<"A", "n", "y">>
S_StarColonStar == <<"*", ":", "*">>

None == <<>>
Some(x) == <<x>>

----------------------------------------------------------------------------
(* The str methods the parsers call *)

UpperCase == <<"A", "B", "C", "D", "E", "F", "G", "H", "I", "J", "K", "L", "M",
               "N", "O", "P", "Q", "R", "S", "T", "U", "V", "W", "X", "Y", "Z">>
LowerCase == <<"a", "b", "c", "d", "e", "f", "g", "h", "i", "j", "k", "l", "m",
               "n", "o", "p", "q", "r", "s", "t", "u", "v", "w", "x", "y", "z">>

char_map(c, from, to) ==
    IF \E k \in DOMAIN from : from[k] = c
    THEN to[CHOOSE k \in DOMAIN from : from[k] = c]
    ELSE c

to_lowercase(s) == [i \in 1..Len(s) |-> char_map(s[i], UpperCase, LowerCase)]

to_uppercase(s) == [i \in 1..Len(s) |-> char_map(s[i], LowerCase, UpperCase)]

starts_with(s, prefix) ==
    /\ Len(s) >= Len(prefix)
    /\ SubSeq(s, 1, Len(prefix)) = prefix

is_whitespace(c) == c \in {" ", "\t", "\r"}

\* line.trim().is_empty()
trim_is_empty(line) == \A i \in DOMAIN line : is_whitespace(line[i])

\* the fields of s from position i on; start is where the field being read
\* began, or 0 between fields
RECURSIVE split_ws(_, _, _, _)
split_ws(s, i, start, acc) ==
    IF i > Len(s)
    THEN IF start = 0 THEN acc ELSE Append(acc, SubSeq(s, start, Len(s)))
    ELSE IF is_whitespace(s[i])
         THEN split_ws(s, i + 1, 0,
                       IF start = 0 THEN acc ELSE Append(acc, SubSeq(s, start, i - 1)))
         ELSE split_ws(s, i + 1, IF start = 0 THEN i ELSE start, acc)

\* line.split_whitespace().collect()
split_whitespace(line) == split_ws(line, 1, 0, <<>>)

\* 0-based position of the last / first occurrence of ch in s, or -1
rfind(s, ch) ==
    IF \E i \in DOMAIN s : s[i] = ch
    THEN (CHOOSE i \in DOMAIN s :
              s[i] = ch /\ \A j \in DOMAIN s : s[j] = ch => j <= i) - 1
    ELSE -1

find(s, ch) ==
    IF \E i \in DOMAIN s : s[i] = ch
    THEN (CHOOSE i \in DOMAIN s :
              s[i] = ch /\ \A j \in DOMAIN s : s[j] = ch => j >= i) - 1
    ELSE -1

\* s.rsplitn(2, ch): the items the iterator yields, in order
rsplitn2(s, ch) ==
    LET k == rfind(s, ch) IN
    IF k < 0 THEN <<s>>
    ELSE <<SubSeq(s, k + 2, Len(s)), SubSeq(s, 1, k)>>

\* s.split_once(ch)
split_once(s, ch) ==
    LET k == find(s, ch) IN
    IF k < 0 THEN None
    ELSE Some(<<SubSeq(s, 1, k), SubSeq(s, k + 2, Len(s))>>)

\* iterator.nth(n).unwrap_or(default)
nth_or(items, n, default) == IF n < Len(items) THEN items[n + 1] ELSE default

\* parts[i], for an i within bounds (the source counts from 0)
at(parts, i) == parts[i + 1]

\* parts.get(i)
get(parts, i) == IF i < Len(parts) THEN Some(parts[i + 1]) ELSE None

\* option.unwrap_or(default)
unwrap_or(option, default) == IF option = None THEN default ELSE option[1]

Digits == <<"0", "1", "2", "3", "4", "5", "6", "7", "8", "9">>

is_digit(c) == \E k \in DOMAIN Digits : Digits[k] = c

digit_value(c) == (CHOOSE k \in DOMAIN Digits : Digits[k] = c) - 1

RECURSIVE strip_zeros(_)
strip_zeros(ds) ==
    IF ds # <<>> /\ Head(ds) = "0" THEN strip_zeros(Tail(ds)) ELSE ds

\* the decimal digits of u32::MAX
U32MaxDigits == <<"4", "2", "9", "4", "9", "6", "7", "2", "9", "5">>

\* ds, without leading zeros, denotes a number above u32::MAX
exceeds_u32(ds) ==
    \/ Len(ds) > Len(U32MaxDigits)
    \/ /\ Len(ds) = Len(U32MaxDigits)
       /\ \E i \in DOMAIN ds :
              /\ digit_value(ds[i]) > digit_value(U32MaxDigits[i])
              /\ \A j \in 1..(i - 1) : ds[j] = U32MaxDigits[j]

RECURSIVE decimal_value(_, _)
decimal_value(ds, acc) ==
    IF ds = <<>> THEN acc
    ELSE decimal_value(Tail(ds), acc * 10 + digit_value(Head(ds)))

\* s.parse::<u32>().ok(): an optional "+", then one or more digits, the
\* value at most u32::MAX
parse_u32(s) ==
    LET ds == IF s # <<>> /\ Head(s) = "+" THEN Tail(s) ELSE s IN
    IF ds = <<>> \/ \E i \in DOMAIN ds : ~is_digit(ds[i]) THEN None
    ELSE IF exceeds_u32(strip_zeros(ds)) THEN None
    ELSE Some(decimal_value(strip_zeros(ds), 0))

\* iterator.skip(n)
skip(items, n) == SubSeq(items, n + 1, Len(items))

----------------------------------------------------------------------------
(* The parsers *)

PortData(port, pid, name, protocol, local_ip, foreign_address, state) ==
    [port |-> port, pid |-> pid, name |-> name, protocol |-> protocol,
     local_ip |-> local_ip, foreign_address |-> foreign_address,
     state |-> state, recv_q |-> S_zero, send_q |-> S_zero]

\* the state and the owner token of a netstat line
netstat_state_and_pid_info(parts, protocol) ==
    IF starts_with(protocol, S_tcp)
    THEN [state |-> unwrap_or(get(parts, 5), S_unknown), pid_info |-> get(parts, 6)]
    ELSE [state |-> S_stateless, pid_info |-> get(parts, 5)]

\* pid_and_name, splitting the owner token at its last "/"
pid_and_name_rsplit(pid_info, privileged) ==
    IF privileged
    THEN IF pid_info # None
         THEN LET pid_prog == pid_info[1] IN
              IF pid_prog # S_dash
              THEN LET halves == rsplitn2(pid_prog, "/") IN
                   IF Len(halves) = 2
                   THEN [pid |-> parse_u32(halves[2]), name |-> halves[1]]
                   ELSE [pid |-> parse_u32(pid_prog), name |-> S_Unknown]
              ELSE [pid |-> None, name |-> S_Unknown]
         ELSE [pid |-> None, name |-> S_Unknown]
    ELSE [pid |-> None, name |-> S_UnknownNoPrivileges]

\* the owner of a netstat line
pid_and_name(pid_info, privileged) ==
    IF privileged
    THEN IF pid_info # None
         THEN LET pid_prog == pid_info[1] IN
              IF pid_prog # S_dash
              THEN LET halves == split_once(pid_prog, "/") IN
                   IF halves # None
                   THEN [pid |-> parse_u32(halves[1][1]), name |-> halves[1][2]]
                   ELSE [pid |-> parse_u32(pid_prog), name |-> S_Unknown]
              ELSE [pid |-> None, name |-> S_Unknown]
         ELSE [pid |-> None, name |-> S_Unknown]
    ELSE [pid |-> None, name |-> S_UnknownNoPrivileges]

\* port and local_ip of a local-address field
split_address(local_address) ==
    [port |-> nth_or(rsplitn2(local_address, ":"), 0, S_empty),
     local_ip |-> nth_or(rsplitn2(local_address, ":"), 1, S_Any)]

\* the record of a netstat line of at least five fields
netstat_record(parts, privileged) ==
    LET protocol == to_lowercase(at(parts, 0))
        local_address == at(parts, 3)
        foreign_address == at(parts, 4)
        sp == netstat_state_and_pid_info(parts, protocol)
        owner == pid_and_name(sp.pid_info, privileged)
        addr == split_address(local_address)
    IN PortData(addr.port, owner.pid, owner.name, protocol, addr.local_ip,
                foreign_address, sp.state)

\* the loop of parse_netstat_output over the lines after the header: the
\* ports pushed so far, and whether indexing parts[4] panicked
RECURSIVE netstat_loop(_, _, _)
netstat_loop(lines, privileged, ports) ==
    IF lines = <<>> THEN [panicked |-> FALSE, ports |-> ports]
    ELSE LET line == Head(lines)
             parts == split_whitespace(line)
         IN IF trim_is_empty(line)
            THEN netstat_loop(Tail(lines), privileged, ports)
            ELSE IF Len(parts) >= 4
                 THEN IF ~(4 < Len(parts))      \* parts[4] is out of bounds
                      THEN [panicked |-> TRUE, ports |-> ports]
                      ELSE netstat_loop(Tail(lines), privileged,
                               Append(ports, netstat_record(parts, privileged)))
                 ELSE netstat_loop(Tail(lines), privileged, ports)

netstat_ports(text, privileged) == netstat_loop(skip(text, 2), privileged, <<>>)

\* ss_state, taking the State column whatever the protocol
ss_state_column(parts, protocol) == at(parts, 1)

\* the state of an ss line
ss_state(parts, protocol) ==
    IF starts_with(protocol, S_tcp) THEN at(parts, 1) ELSE S_stateless

\* ss_record, naming the owner as the privileged parser does
ss_record_unknown(parts) ==
    LET protocol == to_lowercase(at(parts, 0))
        state == ss_state(parts, protocol)
        local_address == at(parts, 4)
        foreign_address == unwrap_or(get(parts, 5), S_StarColonStar)
        addr == split_address(local_address)
    IN PortData(addr.port, None, S_Unknown, protocol,
                addr.local_ip, foreign_address, state)

\* the record of an ss line of at least five fields
ss_record(parts) ==
    LET protocol == to_lowercase(at(parts, 0))
        state == ss_state(parts, protocol)
        local_address == at(parts, 4)
        foreign_address == unwrap_or(get(parts, 5), S_StarColonStar)
        addr == split_address(local_address)
    IN PortData(addr.port, None, S_UnknownNoPrivileges, protocol,
                addr.local_ip, foreign_address, state)

RECURSIVE ss_loop(_, _)
ss_loop(lines, ports) ==
    IF lines = <<>> THEN [panicked |-> FALSE, ports |-> ports]
    ELSE LET line == Head(lines)
             parts == split_whitespace(line)
         IN IF trim_is_empty(line)
            THEN ss_loop(Tail(lines), ports)
            ELSE IF Len(parts) >= 5
                 THEN ss_loop(Tail(lines), Append(ports, ss_record(parts)))
                 ELSE ss_loop(Tail(lines), ports)

ss_ports(text) == ss_loop(skip(text, 1), <<>>)

\* refresh_display: one row per record of the inventory, in order
create_port_row(port_data) ==
    [protocol |-> to_uppercase(port_data.protocol), port |-> port_data.port,
     name |-> port_data.name, pid |-> port_data.pid]

refresh_display(ports) == [i \in 1..Len(ports) |-> create_port_row(ports[i])]

----------------------------------------------------------------------------
(* What the commands may print: the lines are untrusted *)

MaxLines == 2       \* data lines of a stdout handed to a parser alone
MaxAcqLines == 1    \* data lines of a stdout in the acquisition chain
MaxDialogs == 2     \* error dialogs open at once

\* the tokens joined by single blanks
RECURSIVE join(_)
join(tokens) ==
    IF tokens = <<>> THEN <<>>
    ELSE IF Len(tokens) = 1 THEN tokens[1]
    ELSE tokens[1] \o <<" ">> \o join(Tail(tokens))

T_udp == <<"u", "d", "p">>
T_TCP6 == <<"T", "C", "P", "6">>
T_LISTEN == <<"L", "I", "S", "T", "E", "N">>
T_UNCONN == <<"U", "N", "C", "O", "N", "N">>
T_128 == <<"1", "2", "8">>
\* local addresses: "127.0.0.1:8080", "0.0.0.0:22", ":80", "80", ":::22"
A_loopback == <<"1", "2", "7", ".", "0", ".", "0", ".", "1", ":", "8", "0", "8", "0">>
A_any22 == <<"0", ".", "0", ".", "0", ".", "0", ":", "2", "2">>
A_colon80 == <<":", "8", "0">>
A_80 == <<"8", "0">>
A_v6any22 == <<":", ":", ":", "2", "2">>
\* owner tokens: "1234/sshd", "abc/sshd", "1234", "x", "12/a/b",
\* "99999999999/x"
O_1234_sshd == <<"1", "2", "3", "4", "/", "s", "s", "h", "d">>
O_abc_sshd == <<"a", "b", "c", "/", "s", "s", "h", "d">>
O_1234 == <<"1", "2", "3", "4">>
O_x == <<"x">>
O_12_a_b == <<"1", "2", "/", "a", "/", "b">>
O_overflow_x == <<"9", "9", "9", "9", "9", "9", "9", "9", "9", "9", "9", "/", "x">>

OwnerTokens ==
    {O_1234_sshd, S_dash, O_abc_sshd, O_1234, O_x, O_12_a_b, O_overflow_x}

LocalAddresses == {A_loopback, A_colon80, A_80}

\* "tcp 0 0 127.0.0.1:8080 *:* LISTEN 1234/sshd", the shape of netstat -plntu
NetstatTcpLine(proto, addr, owner) ==
    <<proto, S_zero, S_zero, addr, S_StarColonStar, T_LISTEN, owner>>

\* "udp 0 0 127.0.0.1:8080 *:* 1234/sshd"
NetstatUdpLine(addr, owner) ==
    <<T_udp, S_zero, S_zero, addr, S_StarColonStar, owner>>

\* "tcp LISTEN 0 128 0.0.0.0:22 *:*", the shape of ss -tuan
SsLine(proto, state, addr) ==
    <<proto, state, S_zero, T_128, addr, S_StarColonStar>>

Truncations(tokens, lengths) == {SubSeq(tokens, 1, n) : n \in lengths}

\* lines as lists of fields: well-formed ones of both shapes, every owner
\* token and address, and well-formed lines cut short
FieldLists ==
    {NetstatTcpLine(S_tcp, A_loopback, o) : o \in OwnerTokens}
    \cup {NetstatTcpLine(S_tcp, a, O_1234_sshd) : a \in LocalAddresses}
    \cup {NetstatTcpLine(T_TCP6, A_v6any22, S_dash)}
    \cup {NetstatUdpLine(A_colon80, o) : o \in {O_1234_sshd, S_dash, O_abc_sshd}}
    \cup {SsLine(S_tcp, T_LISTEN, A_any22), SsLine(T_udp, T_UNCONN, A_colon80),
          SsLine(T_TCP6, T_LISTEN, A_80)}
    \cup Truncations(NetstatTcpLine(S_tcp, A_loopback, O_1234_sshd), {3, 4, 5, 6})
    \cup Truncations(SsLine(T_udp, T_LISTEN, A_any22), {4, 5})

\* a line of only whitespace, and a line with a tab and repeated blanks
BlankLine == <<" ", "\t">>
PaddedLine == <<"\t">> \o S_tcp \o <<" ", " ">> \o S_zero \o <<" ">> \o S_zero
              \o <<"\t">> \o A_colon80 \o <<" ">> \o S_StarColonStar \o <<" ">>

Lines == {join(f) : f \in FieldLists} \cup {BlankLine, PaddedLine}

\* the lines the acquisition chain is run on
AcqLines ==
    {join(NetstatTcpLine(S_tcp, A_loopback, O_1234_sshd)),
     join(SsLine(T_udp, T_UNCONN, A_colon80)),
     join(SubSeq(NetstatTcpLine(S_tcp, A_loopback, O_1234_sshd), 1, 4))}

SeqsUpTo(S, n) == UNION {[1..k -> S] : k \in 0..n}

\* the header lines netstat and ss print
NetstatHeader == <<<<"A", "c", "t", "i", "v", "e">>, <<"P", "r", "o", "t", "o">>>>
SsHeader == <<<<"N", "e", "t", "i", "d">>>>

\* a stdout: nothing at all, or the header and some lines
Stdouts(header, lines, n) == {<<>>} \cup {header \o body : body \in SeqsUpTo(lines, n)}

\* the result of Command::output(): Err, or Ok with an exit status and stdout
Outcomes(texts) ==
    {[spawned |-> FALSE, success |-> FALSE, stdout |-> <<>>],
     [spawned |-> TRUE, success |-> FALSE, stdout |-> <<>>]}
    \cup {[spawned |-> TRUE, success |-> TRUE, stdout |-> t] : t \in texts}

succeeded(o) == o.spawned /\ o.success

NetstatStdouts == Stdouts(NetstatHeader, AcqLines, MaxAcqLines)
SsStdouts == Stdouts(SsHeader, AcqLines, MaxAcqLines)

----------------------------------------------------------------------------
(* The handlers *)

ran(tool, ok) == [tool |-> tool, ok |-> ok]

\* parse_netstat_output: replaces the inventory and redraws, or panics
parse_netstat_output(text, privileged) ==
    LET r == netstat_ports(text, privileged) IN
    /\ output' = [parser |-> "netstat", privileged |-> privileged, text |-> text]
    /\ IF r.panicked
       THEN /\ pc' = "panicked"
            /\ UNCHANGED <<all_ports, list_box>>
       ELSE /\ pc' = "running"
            /\ all_ports' = r.ports
            /\ list_box' = refresh_display(r.ports)

\* parse_ss_output: replaces the inventory and redraws
parse_ss_output(text) ==
    LET r == ss_ports(text) IN
    /\ output' = [parser |-> "ss", privileged |-> FALSE, text |-> text]
    /\ IF r.panicked
       THEN /\ pc' = "panicked"
            /\ UNCHANGED <<all_ports, list_box>>
       ELSE /\ pc' = "running"
            /\ all_ports' = r.ports
            /\ list_box' = refresh_display(r.ports)

\* the inventory now comes from tool, unless the parser panicked
produced_by(tool) == producer' = IF pc' = "panicked" THEN producer ELSE tool

show_error_dialog == error_dialogs' = error_dialogs + 1

\* both_failed, dropping the inventory it could not renew
both_failed_clearing(tried) ==
    /\ show_error_dialog
    /\ attempts' = tried \o <<ran("ss", FALSE), ran("netstat", FALSE)>>
    /\ pc' = "running"
    /\ all_ports' = <<>>
    /\ list_box' = refresh_display(<<>>)
    /\ UNCHANGED <<producer, output>>

\* the end of fallback_to_unprivileged: neither ss nor netstat succeeded
both_failed(tried) ==
    /\ show_error_dialog
    /\ attempts' = tried \o <<ran("ss", FALSE), ran("netstat", FALSE)>>
    /\ pc' = "running"
    /\ UNCHANGED <<all_ports, list_box, producer, output>>

\* fallback_to_unprivileged, trying netstat before ss
fallback_netstat_first(tried) ==
    /\ is_root' = FALSE
    /\ warning_banner' = TRUE
    /\ \E netstat \in Outcomes(NetstatStdouts) :
          IF succeeded(netstat)
          THEN /\ parse_netstat_output(netstat.stdout, FALSE)
               /\ produced_by("netstat")
               /\ attempts' = tried \o <<ran("netstat", TRUE)>>
               /\ UNCHANGED error_dialogs
          ELSE \E ss \in Outcomes(SsStdouts) :
                  IF succeeded(ss)
                  THEN /\ parse_ss_output(ss.stdout)
                       /\ produced_by("ss")
                       /\ attempts' = tried \o <<ran("netstat", FALSE), ran("ss", TRUE)>>
                       /\ UNCHANGED error_dialogs
                  ELSE /\ show_error_dialog
                       /\ attempts' = tried \o <<ran("netstat", FALSE), ran("ss", FALSE)>>
                       /\ pc' = "running"
                       /\ UNCHANGED <<all_ports, list_box, producer, output>>

\* tried: the commands the handler ran before it came here
fallback_to_unprivileged(tried) ==
    /\ is_root' = FALSE
    /\ warning_banner' = TRUE
    /\ \E ss \in Outcomes(SsStdouts) :
          IF succeeded(ss)
          THEN /\ parse_ss_output(ss.stdout)
               /\ produced_by("ss")
               /\ attempts' = tried \o <<ran("ss", TRUE)>>
               /\ UNCHANGED error_dialogs
          ELSE \E netstat \in Outcomes(NetstatStdouts) :
                  IF succeeded(netstat)
                  THEN /\ parse_netstat_output(netstat.stdout, FALSE)
                       /\ produced_by("netstat")
                       /\ attempts' = tried \o <<ran("ss", FALSE), ran("netstat", TRUE)>>
                       /\ UNCHANGED error_dialogs
                  ELSE both_failed(tried)

load_privileged_data ==
    \E pkexec \in Outcomes(NetstatStdouts) :
        IF succeeded(pkexec)
        THEN /\ is_root' = TRUE
             /\ warning_banner' = FALSE
             /\ parse_netstat_output(pkexec.stdout, TRUE)
             /\ produced_by("pkexec")
             /\ attempts' = <<ran("pkexec", TRUE)>>
             /\ UNCHANGED error_dialogs
        ELSE fallback_to_unprivileged(<<ran("pkexec", FALSE)>>)

\* refresh_data with its branches exchanged
refresh_data_exchanged ==
    IF is_root THEN fallback_to_unprivileged(<<>>) ELSE load_privileged_data

\* refresh_data asking for privileges on every click
refresh_data_reprobing == load_privileged_data

refresh_data ==
    IF is_root THEN load_privileged_data ELSE fallback_to_unprivileged(<<>>)

\* what the handlers' starting state is remembered as
started(handler) ==
    /\ entry' = handler
    /\ pre' = [is_root |-> is_root, producer |-> producer]

----------------------------------------------------------------------------
(* The program: new() leaves an idle callback that loads once; then the    *)
(* main loop serves the refresh button and the dialogs' OK buttons, one    *)
(* handler at a time.  A panic ends the process.                           *)

Init ==
    /\ all_ports = <<>>
    /\ list_box = <<>>
    /\ is_root = FALSE
    /\ warning_banner = FALSE
    /\ error_dialogs = 0
    /\ pc = "start"
    /\ entry = "none"
    /\ pre = [is_root |-> FALSE, producer |-> "none"]
    /\ attempts = <<>>
    /\ producer = "none"
    /\ output = [parser |-> "none", privileged |-> FALSE, text |-> <<>>]

InitialLoad ==
    /\ pc = "start"
    /\ started("load")
    /\ load_privileged_data

RefreshClicked ==
    /\ pc = "running"
    /\ error_dialogs < MaxDialogs
    /\ started("refresh")
    /\ refresh_data

CloseDialog ==
    /\ pc = "running"
    /\ error_dialogs > 0
    /\ error_dialogs' = error_dialogs - 1
    /\ started("close")
    /\ attempts' = <<>>
    /\ UNCHANGED <<all_ports, list_box, is_root, warning_banner, pc, producer, output>>

Next == InitialLoad \/ RefreshClicked \/ CloseDialog

Spec == Init /\ [][Next]_vars

----------------------------------------------------------------------------
(* The parsers alone, on every stdout of up to MaxLines lines *)

\* the header a parser's command prints
header_of(parser) == IF parser = "ss" THEN SsHeader ELSE NetstatHeader

InitParse ==
    /\ all_ports = <<>>
    /\ list_box = <<>>
    /\ is_root = FALSE
    /\ warning_banner = FALSE
    /\ error_dialogs = 0
    /\ pc = "start"
    /\ entry = "none"
    /\ pre = [is_root |-> FALSE, producer |-> "none"]
    /\ attempts = <<>>
    /\ producer = "none"
    /\ \E parser \in {"netstat", "ss"}, privileged \in BOOLEAN :
          /\ privileged => parser = "netstat"
          /\ \/ output = [parser |-> parser, privileged |-> privileged, text |-> <<>>]
             \/ \E k \in 0..MaxLines : \E body \in [1..k -> Lines] :
                   output = [parser |-> parser, privileged |-> privileged,
                             text |-> header_of(parser) \o body]

ParseNetstat ==
    /\ entry = "none"
    /\ output.parser = "netstat"
    /\ entry' = "parse"
    /\ parse_netstat_output(output.text, output.privileged)
    /\ UNCHANGED <<is_root, warning_banner, error_dialogs, pre, attempts, producer>>

ParseSs ==
    /\ entry = "none"
    /\ output.parser = "ss"
    /\ entry' = "parse"
    /\ parse_ss_output(output.text)
    /\ UNCHANGED <<is_root, warning_banner, error_dialogs, pre, attempts, producer>>

NextParse == ParseNetstat \/ ParseSs

SpecParse == InitParse /\ [][NextParse]_vars

----------------------------------------------------------------------------
(* Properties of the acquisition chain, checked under Spec *)

Acquired == entry \in {"load", "refresh"}

Tools(log) == [i \in 1..Len(log) |-> log[i].tool]

AllFailed(log) == log # <<>> /\ \A i \in DOMAIN log : ~log[i].ok

TierOrder == <<"pkexec", "ss", "netstat">>

\* log runs through consecutive tiers of TierOrder, each but the last failing
FallsThrough(log) ==
    /\ \E first \in DOMAIN TierOrder :
          /\ first + Len(log) - 1 <= Len(TierOrder)
          /\ \A i \in DOMAIN log : log[i].tool = TierOrder[first + i - 1]
    /\ \A i \in DOMAIN log : i < Len(log) => ~log[i].ok

\* C1: when every command an acquisition (initial load or refresh) ran has
\* failed, is_root is what it was before the acquisition.
C1_FailedAcquisitionKeepsIsRoot ==
    (Acquired /\ AllFailed(attempts)) => is_root = pre.is_root

\* C2: a load or refresh in which pkexec (if tried), ss and netstat all fail
\* presents an error dialog and leaves all_ports as it was, whatever the
\* inventory and is_root were before.
C2_AllFailedKeepsInventory ==
    [][(entry' \in {"load", "refresh"} /\ AllFailed(attempts'))
          => /\ all_ports' = all_ports
             /\ error_dialogs' = error_dialogs + 1]_vars

\* a refresh of a privileged, non-empty inventory in which all three
\* commands failed, its dialog still open
C2_Witness ==
    /\ entry = "refresh"
    /\ pre.is_root
    /\ Tools(attempts) = TierOrder
    /\ AllFailed(attempts)
    /\ all_ports # <<>>
    /\ error_dialogs > 0

\* C3 as stated: a refresh first runs the command that produced the current
\* inventory, and falls through the later tiers in order only on failure.
C3_RefreshReplaysProducer ==
    (entry = "refresh" /\ pre.producer # "none")
        => /\ attempts # <<>>
           /\ attempts[1].tool = pre.producer
           /\ FallsThrough(attempts)

\* C3 amended: a refresh first runs pkexec when is_root is true and ss when
\* is_root is false, whichever command produced the current inventory, and
\* falls through the later tiers in order only on failure.
C3_RefreshStartsByIsRoot ==
    entry = "refresh"
        => /\ attempts # <<>>
           /\ attempts[1].tool = (IF pre.is_root THEN "pkexec" ELSE "ss")
           /\ FallsThrough(attempts)

\* a refresh of an inventory that netstat produced, which tried ss first
C3_Witness ==
    /\ entry = "refresh"
    /\ pre.producer = "netstat"
    /\ ~pre.is_root
    /\ Tools(attempts) = <<"ss", "netstat">>
    /\ attempts[2].ok

\* C4: after an acquisition in which pkexec failed and ss succeeded, is_root
\* is false and every record has no pid and the name
\* "Unknown (no privileges)".
C4_SsAfterFailedPkexec ==
    (Acquired /\ attempts = <<ran("pkexec", FALSE), ran("ss", TRUE)>>)
        => /\ ~is_root
           /\ pc = "running"
           /\ producer = "ss"
           /\ \A i \in DOMAIN all_ports :
                 /\ all_ports[i].pid = None
                 /\ all_ports[i].name = S_UnknownNoPrivileges

C4_Witness ==
    /\ Acquired
    /\ attempts = <<ran("pkexec", FALSE), ran("ss", TRUE)>>
    /\ pre.is_root
    /\ all_ports # <<>>

\* C9: the commands of one acquisition run in the order pkexec, ss, netstat,
\* each at most once and only after every earlier one failed; the first
\* that succeeds is the last to run, and its stdout is what gets parsed
\* into the inventory.
C9_FirstSuccessWins ==
    Acquired
        => /\ attempts # <<>>
           /\ FallsThrough(attempts)
           /\ entry = "load" => attempts[1].tool = "pkexec"
           /\ AllFailed(attempts) => Tools(attempts)[Len(attempts)] = "netstat"
           /\ ~AllFailed(attempts) =>
                 LET last == attempts[Len(attempts)].tool IN
                 /\ output.parser = (IF last = "ss" THEN "ss" ELSE "netstat")
                 /\ output.privileged = (last = "pkexec")
                 /\ pc = "running" =>
                       /\ producer = last
                       /\ all_ports = (IF last = "ss"
                                       THEN ss_ports(output.text).ports
                                       ELSE netstat_ports(output.text, last = "pkexec").ports)

\* all three commands ran, and the third produced a non-empty inventory
C9_Witness ==
    /\ Acquired
    /\ Tools(attempts) = TierOrder
    /\ attempts[3].ok
    /\ producer = "netstat"
    /\ all_ports # <<>>

\* C10: once an acquisition has left is_root false, no later handler runs
\* pkexec and is_root stays false; pkexec is run only by the initial load
\* or by a refresh that started with is_root true.
C10_NoReprobe ==
    [][/\ (pc = "running" /\ ~is_root)
            => /\ ~is_root'
               /\ \A i \in DOMAIN attempts' : attempts'[i].tool # "pkexec"
       /\ (\E i \in DOMAIN attempts' : attempts'[i].tool = "pkexec")
            => \/ entry' = "load"
               \/ entry' = "refresh" /\ pre'.is_root]_vars

\* a refresh of an inventory that pkexec produced, started with is_root
\* false, which ran ss and never pkexec
C10_Witness ==
    /\ entry = "refresh"
    /\ pre.producer = "pkexec"
    /\ ~pre.is_root
    /\ attempts # <<>>
    /\ attempts[1].tool = "ss"
    /\ ~is_root

----------------------------------------------------------------------------
(* Properties of the parsers, checked under SpecParse *)

Parsed == entry = "parse"

\* the lines after the header
DataLines == skip(output.text, IF output.parser = "ss" THEN 1 ELSE 2)

\* line has a field in every column the parsers read (columns 0 to 4)
has_every_column(line) == Len(split_whitespace(line)) > 4

KeptLines == SelectSeq(DataLines, has_every_column)

KeptFields(i) == split_whitespace(KeptLines[i])

RecordOf(line) ==
    IF output.parser = "ss" THEN ss_record(split_whitespace(line))
    ELSE netstat_record(split_whitespace(line), output.privileged)

\* every record comes from the kept line of the same rank
RecordsMatchKeptLines == pc = "running" /\ Len(all_ports) = Len(KeptLines)

\* C5: a parser never panics; a line with fewer fields than the columns the
\* parser reads yields no record, and every other line yields its record.
C5_ShortLinesSkipped ==
    Parsed
        => /\ pc # "panicked"
           /\ Len(all_ports) = Len(KeptLines)
           /\ \A i \in DOMAIN KeptLines : all_ports[i] = RecordOf(KeptLines[i])

\* the owner column of a netstat line: 6 for tcp, 5 otherwise
OwnerToken(fields) ==
    IF starts_with(to_lowercase(at(fields, 0)), S_tcp)
    THEN get(fields, 6) ELSE get(fields, 5)

LeftOfSlash(token) == SubSeq(token, 1, find(token, "/"))
RightOfSlash(token) == SubSeq(token, find(token, "/") + 2, Len(token))

\* the owner C6 states for a token
StatedOwner(token) ==
    IF token = S_dash THEN [pid |-> None, name |-> S_Unknown]
    ELSE IF find(token, "/") >= 0
         THEN IF parse_u32(LeftOfSlash(token)) # None
              THEN [pid |-> parse_u32(LeftOfSlash(token)), name |-> RightOfSlash(token)]
              ELSE [pid |-> None, name |-> S_Unknown]
         ELSE [pid |-> parse_u32(token), name |-> S_Unknown]

\* the same, but a left side that is no number leaves the name as it stands
AmendedOwner(token) ==
    IF token = S_dash THEN [pid |-> None, name |-> S_Unknown]
    ELSE IF find(token, "/") >= 0
         THEN [pid |-> parse_u32(LeftOfSlash(token)), name |-> RightOfSlash(token)]
         ELSE [pid |-> parse_u32(token), name |-> S_Unknown]

PrivilegedParse == Parsed /\ output.parser = "netstat" /\ output.privileged

\* C6 as stated: "-" gives no pid and "Unknown"; a token with "/" gives the
\* number left of the first "/" and the name right of it, and no pid and
\* "Unknown" when the left side is no number; a token without "/" gives the
\* token as pid and "Unknown".
C6_OwnerAsStated ==
    (PrivilegedParse /\ RecordsMatchKeptLines)
        => \A i \in DOMAIN all_ports :
              OwnerToken(KeptFields(i)) # None
                  => LET owner == StatedOwner(OwnerToken(KeptFields(i))[1]) IN
                     /\ all_ports[i].pid = owner.pid
                     /\ all_ports[i].name = owner.name

\* C6 amended: as stated, except that when the left side of the "/" is no
\* number the pid is absent and the name is still the right side.
C6_OwnerAmended ==
    PrivilegedParse
        => /\ pc = "running" => Len(all_ports) = Len(KeptLines)
           /\ RecordsMatchKeptLines
                => \A i \in DOMAIN all_ports :
                      OwnerToken(KeptFields(i)) # None
                          => LET owner == AmendedOwner(OwnerToken(KeptFields(i))[1]) IN
                             /\ all_ports[i].pid = owner.pid
                             /\ all_ports[i].name = owner.name

T_sshd == <<"s", "s", "h", "d">>

\* a privileged parse of "1234/sshd" and of "abc/sshd"
C6_Witness ==
    /\ PrivilegedParse
    /\ RecordsMatchKeptLines
    /\ \E i, j \in DOMAIN all_ports :
          /\ OwnerToken(KeptFields(i)) = Some(O_1234_sshd)
          /\ all_ports[i].pid = Some(1234)
          /\ all_ports[i].name = T_sshd
          /\ OwnerToken(KeptFields(j)) = Some(O_abc_sshd)
          /\ all_ports[j].pid = None
          /\ all_ports[j].name = T_sshd

\* the local-address column: 4 for ss, 3 for netstat
LocalAddress(fields) == IF output.parser = "ss" THEN at(fields, 4) ELSE at(fields, 3)

\* C7: port is what follows the last ":" of the local address and local_ip
\* what precedes it; without a ":" the port is empty; with nothing before
\* the last ":" local_ip is the wildcard token.
C7_AddressSplit ==
    (Parsed /\ RecordsMatchKeptLines)
        => \A i \in DOMAIN all_ports :
              LET a == LocalAddress(KeptFields(i))
                  k == rfind(a, ":")
              IN IF k < 0 THEN all_ports[i].port = S_empty
                 ELSE /\ all_ports[i].port = SubSeq(a, k + 2, Len(a))
                      /\ all_ports[i].local_ip = (IF k = 0 THEN S_Any ELSE SubSeq(a, 1, k))

\* C8: a record whose protocol does not begin with "tcp" has the state
\* "stateless".
C8_NonTcpStateless ==
    \A i \in DOMAIN all_ports :
        ~starts_with(all_ports[i].protocol, S_tcp) => all_ports[i].state = S_stateless

\* ss printed "udp LISTEN ..." and the record is stateless
C8_Witness ==
    /\ Parsed
    /\ output.parser = "ss"
    /\ RecordsMatchKeptLines
    /\ \E i \in DOMAIN all_ports :
          /\ at(KeptFields(i), 0) = T_udp
          /\ at(KeptFields(i), 1) = T_LISTEN
          /\ all_ports[i].protocol = T_udp
          /\ all_ports[i].state = S_stateless

====
